---- MODULE Spec2Model ----
(***************************************************************************)
(* The integration-test harness of libeufin: integration-tests/util.py and *)
(* integration-tests/tests.py.  One sequential control thread (the Python  *)
(* interpreter running the test module) drives two supervised service      *)
(* processes (sandbox on port 5000, nexus on port 5001) and the two        *)
(* persistent stores.  The services, the stores and any other owner of a   *)
(* port are the environment.                                               *)
(*                                                                         *)
(* The module holds, next to the harness (Spec, FairSpec), the port check  *)
(* run by several harness processes at once (PortSpec) and the library     *)
(* functions of util.py applied to bounded inputs: the JSON validator      *)
(* (CheckSpec), assertResponse (ResponseSpec) and assertJsonEqual          *)
(* (EqualSpec).                                                            *)
(***************************************************************************)
EXTENDS Integers, Sequences, FiniteSets, TLC

\* ------------------------------------------------------------------ bounds
\* Number of test functions the run holds (tests.py defines many; each one
\* goes through the same setup_function / body / teardown_function cycle).
MaxScenarios == 2
\* How many times an actor other than the harness binds or releases a port.
MaxForeignEvents == 2
\* Harness processes started at the same time on one machine (PortSpec).
MaxRuns == 3
\* Rules of a top-level contract (CheckSpec).
MaxRules == 2
\* Calls of one contract on one document (CheckSpec).
MaxChecks == 2
\* Elements of a JSON array (EqualSpec).
MaxItems == 2

\* ------------------------------------------------------- program constants
SandboxMaxAttempts == 10
NexusMaxAttempts == 80
ExitSkip == 77
SandboxInterval == 2
NexusInterval == 1

Svc == {"sandbox", "nexus"}
Scenarios == 1..MaxScenarios
Runs == 1..MaxRuns

MaxAttempts(s) == IF s = "sandbox" THEN SandboxMaxAttempts ELSE NexusMaxAttempts
\* Seconds of the sleep after a failed probe.
Interval(s) == IF s = "sandbox" THEN SandboxInterval ELSE NexusInterval

\* Exit status of the interpreter when the code itself does not pass one to
\* exit(): the test runner ends 0 when every test passed, 1 when a test failed
\* or errored, 2 when importing the test module raised.
RunnerStatus(outcome) ==
    CASE outcome = "passed" -> 0
      [] outcome = "failed" -> 1
      [] outcome = "import_error" -> 2

\* The nine calls of setup_function, in the order prepareSandbox and
\* prepareNexus issue them, each with the store it writes.
SetupSteps ==
    << [name |-> "host",            store |-> "sandbox"],
       [name |-> "subscriber",      store |-> "sandbox"],
       [name |-> "bank-account",    store |-> "sandbox"],
       [name |-> "superuser",       store |-> "nexus"],
       [name |-> "user",            store |-> "nexus"],
       [name |-> "bank-connection", store |-> "nexus"],
       [name |-> "connect",         store |-> "nexus"],
       [name |-> "fetch-accounts",  store |-> "nexus"],
       [name |-> "import-account",  store |-> "nexus"] >>

\* Popen(..., stdout=open(...), stderr=open(...)): neither stream is a PIPE, so
\* communicate() returns None for both.
PipedOutput == FALSE

RECURSIVE Reverse(_)
Reverse(q) == IF q = <<>> THEN <<>> ELSE Append(Reverse(Tail(q)), Head(q))

VARIABLES
    pc,             \* position of the control thread
    exitCode,       \* -1 while running, else the interpreter's exit status
    proc,           \* per service: "none" | "running" | "exited"
    returncode,     \* per service: Popen.returncode is set (child reaped)
    terminateCalls, \* per service: calls of Popen.terminate()
    signals,        \* per service: stop signals actually delivered
    waits,          \* per service: completed Popen.wait() calls of kill()
    hooks,          \* atexit registry, in registration order
    pending,        \* hooks still to run during interpreter exit
    portOwner,      \* per service port: "free" | "child" | "other"
    foreignEvents,  \* binds/releases by other actors so far
    portChecked,    \* per service: checkPort has run
    bindFailed,     \* per service: checkPort could not bind
    starting,       \* the service startSandbox/startNexus is working on
    i,              \* loop index of the readiness loop in progress
    probes,         \* readiness probes issued by the loop in progress
    sleeps,         \* sleeps taken by the loop in progress
    slept,          \* seconds slept by the loop in progress
    timedOut,       \* per service: the last probe of the budget failed
    ready,          \* per service: a readiness probe was answered
    store,          \* per store: "clean" | "dirty"
    scen,           \* scenario being run, 0 before the first
    step,           \* setup steps completed in the current scenario
    inHandler,      \* teardown_function was called by setup's except clause
    result,         \* current scenario: "none" | "passed" | "failed" | "error"
    issued,         \* current scenario: names of the setup steps issued
    setupFailed,    \* current scenario: a setup step raised
    bodyRan,        \* current scenario: the test body was executed
    tdCalls,        \* current scenario: calls of teardown_function
    drops,          \* current scenario: stores teardown_function ran a reset on
    resetFailed,    \* a reset of teardown_function raised in this run
    sessionFailed,  \* some scenario of the session did not pass
    runPc,          \* PortSpec: per harness process, its position
    svc,            \* PortSpec: per harness process, the service it launched
    call,           \* library specifications: the call and its arguments
    ret             \* library specifications: how the call ended

procVars == <<proc, returncode, terminateCalls, signals, waits>>
portVars == <<portOwner, foreignEvents, portChecked, bindFailed>>
loopVars == <<starting, i, probes, sleeps, slept, timedOut,
             ready>>
scenVars == <<scen, step, inHandler, result, issued, setupFailed, bodyRan,
              tdCalls, drops, resetFailed, sessionFailed>>
harnessVars == <<pc, exitCode, hooks, pending, procVars, portVars, loopVars,
                 store, scenVars>>
auxVars == <<runPc, svc, call, ret>>
vars == <<harnessVars, auxVars>>

\* No harness process of PortSpec runs, and no library call is made.
NoRace == runPc = [r \in Runs |-> "off"] /\ svc = [r \in Runs |-> "none"]
NoCall == call = [fn |-> "none"] /\ ret = [kind |-> "none"]

\* The harness before the first statement of tests.py, with the ports and the
\* stores as the machine holds them.
HarnessAt(owner, content) ==
    /\ pc = "compile"
    /\ exitCode = -1
    /\ proc = [s \in Svc |-> "none"]
    /\ returncode = [s \in Svc |-> FALSE]
    /\ terminateCalls = [s \in Svc |-> 0]
    /\ signals = [s \in Svc |-> 0]
    /\ waits = [s \in Svc |-> 0]
    /\ hooks = <<>>
    /\ pending = <<>>
    /\ portOwner = owner
    /\ foreignEvents = 0
    /\ portChecked = [s \in Svc |-> FALSE]
    /\ bindFailed = [s \in Svc |-> FALSE]
    /\ starting = "sandbox"
    /\ i = 0
    /\ probes = 0
    /\ sleeps = 0
    /\ slept = 0
    /\ timedOut = [s \in Svc |-> FALSE]
    /\ ready = [s \in Svc |-> FALSE]
    /\ store = content
    /\ scen = 0
    /\ step = 0
    /\ inHandler = FALSE
    /\ result = "none"
    /\ issued = <<>>
    /\ setupFailed = FALSE
    /\ bodyRan = FALSE
    /\ tdCalls = 0
    /\ drops = <<>>
    /\ resetFailed = FALSE
    /\ sessionFailed = FALSE

Init ==
    /\ \E owner \in [Svc -> {"free", "other"}], content \in [Svc -> {"clean", "dirty"}] :
         HarnessAt(owner, content)
    /\ NoRace
    /\ NoCall

\* The harness is not running: the state the other specifications keep it in.
HarnessOff ==
    HarnessAt([s \in Svc |-> "free"], [s \in Svc |-> "clean"])

\* ------------------------------------------------------- interpreter exit
\* Faulty variant of the interpreter's exit: the hooks run in the order of
\* their registration.
Exit_Fifo(code) ==
    /\ pc' = "atexit"
    /\ exitCode' = code
    /\ pending' = hooks

\* exit(code), or an exception nobody catches: the interpreter runs the atexit
\* hooks, last registered first, and ends with the status.
Exit(code) ==
    /\ pc' = "atexit"
    /\ exitCode' = code
    /\ pending' = Reverse(hooks)

\* An exception that nothing catches while the test module is imported.
RaiseAtImport == Exit(RunnerStatus("import_error"))

\* What the steps of module start-up leave alone, and what the steps of a
\* scenario leave alone.
startFrame == <<hooks, procVars, portVars, loopVars, store, scenVars>>
scenFrame == <<hooks, procVars, portVars, loopVars>>

\* compileLibeufin(), first statement of the module: check_call of the gradle
\* command succeeds, or raises CalledProcessError.
compileLibeufin ==
    /\ pc = "compile"
    /\ \E ok \in BOOLEAN :
         IF ok
           THEN pc' = "init_drop_sandbox" /\ UNCHANGED <<exitCode, pending>>
           ELSE RaiseAtImport
    /\ UNCHANGED startFrame
    /\ UNCHANGED auxVars

\* dropSandboxTables / dropNexusTables: reset-tables on one store.  A command
\* that fails leaves the store as it was and check_call raises.
dropTables(s, ok) ==
    IF ok THEN store' = [store EXCEPT ![s] = "clean"] ELSE UNCHANGED store

\* dropSandboxTables() and dropNexusTables() at module level, each right
\* before its service is started.
InitDrop(s) ==
    /\ pc = IF s = "sandbox" THEN "init_drop_sandbox" ELSE "init_drop_nexus"
    /\ \E ok \in BOOLEAN :
         /\ dropTables(s, ok)
         /\ IF ok
              THEN /\ pc' = "checkPort"
                   /\ UNCHANGED <<exitCode, pending, resetFailed>>
              ELSE /\ RaiseAtImport
                   /\ resetFailed' = TRUE
    /\ starting' = s
    /\ UNCHANGED <<hooks, procVars, portVars, i, probes, sleeps, slept, timedOut,
                   ready,
                   scen, step, inHandler, result, issued, setupFailed, bodyRan,
                   tdCalls, drops, sessionFailed>>
    /\ UNCHANGED auxVars

\* ------------------------------------------------------------- PortGuard
\* Faulty variant of checkPort: the failed bind is reported but the function
\* returns, so the caller goes on to spawn the service.
checkPort_NoExit(s) ==
    /\ pc = "checkPort" /\ starting = s
    /\ portChecked' = [portChecked EXCEPT ![s] = TRUE]
    /\ bindFailed' = [bindFailed EXCEPT ![s] = (portOwner[s] # "free")]
    /\ pc' = "spawn"
    /\ UNCHANGED <<exitCode, pending, hooks, procVars, portOwner, foreignEvents,
                   loopVars, store, scenVars>>
    /\ UNCHANGED auxVars

\* checkPort(port): bind with SO_REUSEADDR and close; exit(77) when the bind
\* raises.  The bind fails exactly when somebody listens on the port.
checkPort(s) ==
    /\ pc = "checkPort" /\ starting = s
    /\ portChecked' = [portChecked EXCEPT ![s] = TRUE]
    /\ IF portOwner[s] = "free"
         THEN /\ pc' = "spawn"
              /\ UNCHANGED <<exitCode, pending, bindFailed>>
         ELSE /\ bindFailed' = [bindFailed EXCEPT ![s] = TRUE]
              /\ Exit(ExitSkip)
    /\ UNCHANGED <<hooks, procVars, portOwner, foreignEvents, loopVars, store, scenVars>>
    /\ UNCHANGED auxVars

\* ------------------------------------------------------ ProcessSupervisor
\* Faulty variant of the launch: the loop follows Popen at once and the hook
\* is not registered before it.
Spawn_ProbeFirst(s) ==
    /\ pc = "spawn" /\ starting = s
    /\ proc' = [proc EXCEPT ![s] = "running"]
    /\ pc' = "probe"
    /\ UNCHANGED <<exitCode, pending, hooks, returncode, terminateCalls, signals,
                   waits, portVars, loopVars, store, scenVars>>
    /\ UNCHANGED auxVars

\* Popen([...gradlew ... serve]): the child runs, or Popen raises OSError.
Spawn(s) ==
    /\ pc = "spawn" /\ starting = s
    /\ \E ok \in BOOLEAN :
         IF ok
           THEN /\ proc' = [proc EXCEPT ![s] = "running"]
                /\ pc' = "register"
                /\ UNCHANGED <<exitCode, pending>>
           ELSE /\ RaiseAtImport
                /\ UNCHANGED proc
    /\ UNCHANGED <<hooks, returncode, terminateCalls, signals, waits, portVars,
                   loopVars, store, scenVars>>
    /\ UNCHANGED auxVars

\* atexit.register(lambda: kill(name, child)), then the loop starts at i = 0.
Register(s) ==
    /\ pc = "register" /\ starting = s
    /\ hooks' = Append(hooks, s)
    /\ i' = 0
    /\ pc' = "probe"
    /\ UNCHANGED <<exitCode, pending, procVars, portVars, starting, probes, sleeps,
                   slept,
                   timedOut, ready, store, scenVars>>
    /\ UNCHANGED auxVars

\* Faulty variant of the except clause: the last index has no branch of its
\* own, so the loop runs out and the function returns as if the service had
\* answered.
AfterFailedProbe_FallThrough(s) == IF i = MaxAttempts(s) - 1 THEN "ready" ELSE "sleep"

\* Faulty variant of the except clause: the timeout branch is taken one index
\* too late.
AfterFailedProbe_OffByOne(s) == IF i = MaxAttempts(s) THEN "timeout" ELSE "sleep"

\* Where the except clause of the readiness loop goes: the timeout branch on
\* the last index, the sleep otherwise.
AfterFailedProbe(s) == IF i = MaxAttempts(s) - 1 THEN "timeout" ELSE "sleep"

\* get("http://localhost:<port>/"): nobody listens, so the connection is
\* refused and get raises; or somebody accepts and get waits for the reply
\* (no timeout is passed).
Probe(s) ==
    /\ pc = "probe" /\ starting = s
    /\ probes' = probes + 1
    /\ IF portOwner[s] = "free"
         THEN /\ pc' = AfterFailedProbe(s)
              /\ timedOut' = [timedOut EXCEPT ![s] = (i = MaxAttempts(s) - 1)]
         ELSE /\ pc' = "get"
              /\ UNCHANGED timedOut
    /\ UNCHANGED <<exitCode, hooks, pending, procVars, portVars, starting, i, sleeps,
                   slept,
                   ready, store, scenVars>>
    /\ UNCHANGED auxVars

\* The listener replies (any status): get returns and the loop breaks.
GetReturns(s) ==
    /\ pc = "get" /\ starting = s
    /\ portOwner[s] # "free"
    /\ pc' = "ready"
    /\ ready' = [ready EXCEPT ![s] = TRUE]
    /\ UNCHANGED <<exitCode, hooks, pending, procVars, portVars, starting, i, probes,
                   sleeps, slept, timedOut, store, scenVars>>
    /\ UNCHANGED auxVars

\* The listener drops the connection without replying, or goes away: get
\* raises.
GetRaises(s) ==
    /\ pc = "get" /\ starting = s
    /\ pc' = AfterFailedProbe(s)
    /\ timedOut' = [timedOut EXCEPT ![s] = (i = MaxAttempts(s) - 1)]
    /\ UNCHANGED <<exitCode, hooks, pending, procVars, portVars, starting, i, probes,
                   sleeps, slept, ready, store, scenVars>>
    /\ UNCHANGED auxVars

\* sleep(2) / sleep(1); continue.
Sleep(s) ==
    /\ pc = "sleep" /\ starting = s
    /\ sleeps' = sleeps + 1
    /\ slept' = slept + Interval(s)
    /\ i' = i + 1
    /\ pc' = "probe"
    /\ UNCHANGED <<exitCode, hooks, pending, procVars, portVars, starting, probes,
                   timedOut, ready, store, scenVars>>
    /\ UNCHANGED auxVars

\* Where startSandbox / startNexus return to: the next statement of the
\* module, or the test runner once the module is imported.
StartReturn(s) == IF s = "sandbox" THEN "init_drop_nexus" ELSE "run_next"

\* The function returns; its loop is over.
Return(s) ==
    /\ pc = "ready" /\ starting = s
    /\ pc' = StartReturn(s)
    /\ i' = 0 /\ probes' = 0 /\ sleeps' = 0 /\ slept' = 0
    /\ UNCHANGED <<exitCode, hooks, pending, procVars, portVars, starting, timedOut,
                   ready, store, scenVars>>
    /\ UNCHANGED auxVars

\* Popen.terminate(): poll() first; a child whose exit is known gets no
\* signal, any other child gets SIGTERM.
terminate(s) ==
    /\ terminateCalls' = [terminateCalls EXCEPT ![s] = @ + 1]
    /\ IF proc[s] = "exited"
         THEN /\ returncode' = [returncode EXCEPT ![s] = TRUE]
              /\ UNCHANGED signals
         ELSE /\ signals' = [signals EXCEPT ![s] = @ + 1]
              /\ UNCHANGED returncode

\* Faulty variant of wait: poll() in its place, which does not block.
wait_Poll(s) ==
    returncode' = [returncode EXCEPT ![s] = (@ \/ proc[s] = "exited")]

\* Popen.wait(): blocks until the child has exited, then reaps it.
wait(s) ==
    /\ proc[s] = "exited"
    /\ returncode' = [returncode EXCEPT ![s] = TRUE]

\* startSandbox, i == 9: sandbox.communicate() waits for the child to exit and
\* returns (None, None), "Sandbox timed out" is printed, and stdout.decode()
\* raises AttributeError before exit(77) is reached.
SandboxTimeout ==
    /\ pc = "timeout" /\ starting = "sandbox"
    /\ wait("sandbox")
    /\ IF PipedOutput THEN Exit(ExitSkip) ELSE RaiseAtImport
    /\ UNCHANGED <<hooks, proc, terminateCalls, signals, waits, portVars, loopVars,
                   store, scenVars>>
    /\ UNCHANGED auxVars

\* startNexus, i == 79: nexus.terminate(), "Nexus timed out", exit(77).
NexusTimeout ==
    /\ pc = "timeout" /\ starting = "nexus"
    /\ terminate("nexus")
    /\ Exit(ExitSkip)
    /\ UNCHANGED <<hooks, proc, waits, portVars, loopVars, store, scenVars>>
    /\ UNCHANGED auxVars

\* The steps of startSandbox and startNexus the control thread takes on its
\* own; the end of a pending get is the listener's doing (Reply).
startSandbox ==
    \/ checkPort("sandbox") \/ Spawn("sandbox") \/ Register("sandbox")
    \/ Probe("sandbox") \/ Sleep("sandbox") \/ Return("sandbox") \/ SandboxTimeout

startNexus ==
    \/ checkPort("nexus") \/ Spawn("nexus") \/ Register("nexus")
    \/ Probe("nexus") \/ Sleep("nexus") \/ Return("nexus") \/ NexusTimeout

Reply == \E s \in Svc : GetReturns(s) \/ GetRaises(s)

\* kill(name, s), run as an atexit hook: s.terminate() ...
KillTerminate ==
    /\ pc = "atexit" /\ pending # <<>>
    /\ terminate(Head(pending))
    /\ pc' = "kill_wait"
    /\ UNCHANGED <<exitCode, hooks, pending, proc, waits, portVars, loopVars, store,
                   scenVars>>
    /\ UNCHANGED auxVars

\* ... then s.wait(); the hook returns and the next one runs.
KillWait ==
    /\ pc = "kill_wait"
    /\ wait(Head(pending))
    /\ waits' = [waits EXCEPT ![Head(pending)] = @ + 1]
    /\ pending' = Tail(pending)
    /\ pc' = "atexit"
    /\ UNCHANGED <<exitCode, hooks, proc, terminateCalls, signals, portVars, loopVars,
                   store, scenVars>>
    /\ UNCHANGED auxVars

kill == KillTerminate \/ KillWait

\* Every hook has run: the interpreter process ends.
Ended ==
    /\ pc = "atexit" /\ pending = <<>>
    /\ pc' = "ended"
    /\ UNCHANGED <<exitCode, pending, startFrame>>
    /\ UNCHANGED auxVars

\* ----------------------------------------------------------- environment
\* A running child exits: on the stop signal, or on its own.
ProcExit(s) ==
    /\ proc[s] = "running"
    /\ proc' = [proc EXCEPT ![s] = "exited"]
    /\ portOwner' = [portOwner EXCEPT ![s] = IF @ = "child" THEN "free" ELSE @]
    /\ UNCHANGED <<pc, exitCode, hooks, pending, returncode, terminateCalls, signals,
                   waits, foreignEvents, portChecked, bindFailed, loopVars, store,
                   scenVars>>
    /\ UNCHANGED auxVars

\* A running child starts to listen on its port when the port is free.
ChildListens(s) ==
    /\ proc[s] = "running"
    /\ portOwner[s] = "free"
    /\ portOwner' = [portOwner EXCEPT ![s] = "child"]
    /\ UNCHANGED <<pc, exitCode, hooks, pending, procVars, foreignEvents, portChecked,
                   bindFailed, loopVars, store, scenVars>>
    /\ UNCHANGED auxVars

\* Another actor binds a free port, or releases the port it holds.
OtherActor(s) ==
    /\ foreignEvents < MaxForeignEvents
    /\ portOwner[s] \in {"free", "other"}
    /\ portOwner' = [portOwner EXCEPT ![s] = IF @ = "free" THEN "other" ELSE "free"]
    /\ foreignEvents' = foreignEvents + 1
    /\ UNCHANGED <<pc, exitCode, hooks, pending, procVars, portChecked, bindFailed,
                   loopVars, store, scenVars>>
    /\ UNCHANGED auxVars

Environment == \E s \in Svc : ProcExit(s) \/ ChildListens(s) \/ OtherActor(s)

\* ---------------------------------------------------------- ScenarioRunner
\* The test runner takes the next test function, or ends the session when
\* none is left: status 0 when every test passed.
RunNext ==
    /\ pc = "run_next"
    /\ IF scen < MaxScenarios
         THEN /\ scen' = scen + 1
              /\ step' = 0
              /\ result' = "none"
              /\ issued' = <<>>
              /\ setupFailed' = FALSE
              /\ bodyRan' = FALSE
              /\ tdCalls' = 0
              /\ drops' = <<>>
              /\ pc' = "setup"
              /\ UNCHANGED <<exitCode, pending>>
         ELSE /\ Exit(RunnerStatus(IF sessionFailed THEN "failed" ELSE "passed"))
              /\ UNCHANGED <<scen, step, result, issued, setupFailed, bodyRan, tdCalls,
                             drops>>
    /\ UNCHANGED <<scenFrame, store, inHandler, resetFailed, sessionFailed>>
    /\ UNCHANGED auxVars

\* Faulty variant of a setup call: its response is not asserted, so the next
\* call follows whatever the status was.
SetupStep_NoAssert ==
    /\ pc = "setup"
    /\ issued' = Append(issued, SetupSteps[step + 1].name)
    /\ \E ok \in BOOLEAN :
         /\ setupFailed' = (setupFailed \/ ~ok)
         /\ IF ok
              THEN store' = [store EXCEPT ![SetupSteps[step + 1].store] = "dirty"]
              ELSE UNCHANGED store
    /\ step' = step + 1
    /\ pc' = IF step + 1 = Len(SetupSteps) THEN "body" ELSE "setup"
    /\ UNCHANGED <<exitCode, pending, scenFrame, scen, inHandler, result, bodyRan,
                   tdCalls, drops, resetFailed, sessionFailed>>
    /\ UNCHANGED auxVars

\* One call of prepareSandbox / prepareNexus inside the try block of
\* setup_function: the call is made and assertResponse (or check_call) either
\* passes, and the next call follows, or raises.
SetupStep ==
    /\ pc = "setup"
    /\ issued' = Append(issued, SetupSteps[step + 1].name)
    /\ \E ok \in BOOLEAN :
         IF ok
           THEN /\ store' = [store EXCEPT ![SetupSteps[step + 1].store] = "dirty"]
                /\ step' = step + 1
                /\ pc' = IF step + 1 = Len(SetupSteps) THEN "body" ELSE "setup"
                /\ UNCHANGED setupFailed
           ELSE /\ setupFailed' = TRUE
                /\ pc' = "setup_except"
                /\ UNCHANGED <<store, step>>
    /\ UNCHANGED <<exitCode, pending, scenFrame, scen, inHandler, result, bodyRan,
                   tdCalls, drops, resetFailed, sessionFailed>>
    /\ UNCHANGED auxVars

\* Faulty variant of the except clause: teardown_function() is not called.
SetupExcept_NoTeardown ==
    /\ pc = "setup_except"
    /\ pc' = "setup_assert"
    /\ inHandler' = TRUE
    /\ UNCHANGED <<exitCode, pending, scenFrame, store, scen, step, result, issued,
                   setupFailed, bodyRan, tdCalls, drops, resetFailed, sessionFailed>>
    /\ UNCHANGED auxVars

\* except Exception: teardown_function() ...
SetupExcept ==
    /\ pc = "setup_except"
    /\ tdCalls' = tdCalls + 1
    /\ inHandler' = TRUE
    /\ pc' = "td_sandbox"
    /\ UNCHANGED <<exitCode, pending, scenFrame, store, scen, step, result, issued,
                   setupFailed, bodyRan, drops, resetFailed, sessionFailed>>
    /\ UNCHANGED auxVars

\* Faulty variant of the except clause: it ends without raising, so
\* setup_function returns normally and the runner calls the test body.
SetupAssertFalse_Swallowed ==
    /\ pc = "setup_assert"
    /\ inHandler' = FALSE
    /\ pc' = "body"
    /\ UNCHANGED <<exitCode, pending, scenFrame, store, scen, step, result, issued,
                   setupFailed, bodyRan, tdCalls, drops, resetFailed, sessionFailed>>
    /\ UNCHANGED auxVars

\* ... assert False, "Setup function failed": setup_function raises, the
\* runner reports the test as an error and does not call its body.
SetupAssertFalse ==
    /\ pc = "setup_assert"
    /\ result' = "error"
    /\ sessionFailed' = TRUE
    /\ inHandler' = FALSE
    /\ pc' = "run_next"
    /\ UNCHANGED <<exitCode, pending, scenFrame, store, scen, step, issued,
                   setupFailed, bodyRan, tdCalls, drops, resetFailed>>
    /\ UNCHANGED auxVars

setup_function == SetupStep \/ SetupExcept \/ SetupAssertFalse

\* The body of a test function: its calls write to the stores; it passes, or
\* an assertion of it (assertResponse, assertJsonEqual, assert) fails.
Body ==
    /\ pc = "body"
    /\ bodyRan' = TRUE
    /\ store' = [store EXCEPT !["nexus"] = "dirty"]
    /\ \E passed \in BOOLEAN : result' = IF passed THEN "passed" ELSE "failed"
    /\ pc' = "teardown"
    /\ UNCHANGED <<exitCode, pending, scenFrame, scen, step, inHandler, issued,
                   setupFailed, tdCalls, drops, resetFailed, sessionFailed>>
    /\ UNCHANGED auxVars

\* The runner calls teardown_function after a test whose setup_function
\* returned, whether the body passed or failed.
RunnerTeardown ==
    /\ pc = "teardown"
    /\ tdCalls' = tdCalls + 1
    /\ pc' = "td_sandbox"
    /\ UNCHANGED <<exitCode, pending, scenFrame, store, scen, step, inHandler, result,
                   issued, setupFailed, bodyRan, drops, resetFailed, sessionFailed>>
    /\ UNCHANGED auxVars

\* A reset command of teardown_function raised CalledProcessError: the
\* exception leaves teardown_function (and setup_function when the except
\* clause called it), the runner reports an error for this test and goes on
\* with the next one.
ResetRaises ==
    /\ result' = "error"
    /\ sessionFailed' = TRUE
    /\ resetFailed' = TRUE
    /\ inHandler' = FALSE
    /\ pc' = "run_next"

\* teardown_function returns: to the except clause of setup_function, or to
\* the runner, which is done with this test.
TeardownReturns ==
    /\ pc' = IF inHandler THEN "setup_assert" ELSE "run_next"
    /\ sessionFailed' = (sessionFailed \/ (~inHandler /\ result # "passed"))
    /\ UNCHANGED <<result, resetFailed, inHandler>>

\* teardown_function, first statement: dropSandboxTables().
TeardownSandbox ==
    /\ pc = "td_sandbox"
    /\ drops' = Append(drops, "sandbox")
    /\ \E ok \in BOOLEAN :
         /\ dropTables("sandbox", ok)
         /\ IF ok
              THEN /\ pc' = "td_nexus"
                   /\ UNCHANGED <<result, resetFailed, inHandler, sessionFailed>>
              ELSE ResetRaises
    /\ UNCHANGED <<exitCode, pending, scenFrame, scen, step, issued, setupFailed,
                   bodyRan, tdCalls>>
    /\ UNCHANGED auxVars

\* teardown_function, second statement: dropNexusTables().
TeardownNexus ==
    /\ pc = "td_nexus"
    /\ drops' = Append(drops, "nexus")
    /\ \E ok \in BOOLEAN :
         /\ dropTables("nexus", ok)
         /\ IF ok THEN TeardownReturns ELSE ResetRaises
    /\ UNCHANGED <<exitCode, pending, scenFrame, scen, step, issued, setupFailed,
                   bodyRan, tdCalls>>
    /\ UNCHANGED auxVars

teardown_function == TeardownSandbox \/ TeardownNexus

\* ------------------------------------------------------------ the system
Harness ==
    \/ compileLibeufin
    \/ InitDrop("sandbox") \/ InitDrop("nexus")
    \/ startSandbox
    \/ startNexus
    \/ RunNext
    \/ setup_function
    \/ Body
    \/ RunnerTeardown
    \/ teardown_function
    \/ kill
    \/ Ended

Next == Harness \/ Reply \/ Environment

Spec == Init /\ [][Next]_vars

\* A pending get whose listener is gone: the connection is reset.
ConnectionLost(s) == portOwner[s] = "free" /\ GetRaises(s)

\* The control thread is sequential and keeps running: a step of its own that
\* is possible is eventually taken, and a connection whose listener is gone
\* is eventually reset.  Nothing makes a service reply, listen or exit.
FairSpec ==
    /\ Spec
    /\ WF_vars(Harness)
    /\ \A s \in Svc : WF_vars(ConnectionLost(s))

\* ------------------------------------------- several harnesses, one port
\* Harness processes started side by side run the same first statements of
\* startSandbox on the same port: checkPort(5000), then Popen.  A process is at
\* "checkPort" (before the bind), "close" (its socket is bound), "spawn" (the
\* check passed), "started" (Popen returned) or "exit77".
Listening == {q \in Runs : svc[q] = "listening"}
Checking(r) == {q \in Runs \ {r} : runPc[q] = "close"}

\* Whether a bind with SO_REUSEADDR goes through: never while a service
\* listens on the port, always on a port nobody has bound, and as the
\* platform decides while only the socket of another check is bound.
BindOutcomes(r) ==
    IF Listening # {} THEN {FALSE}
    ELSE IF Checking(r) = {} THEN {TRUE}
    ELSE BOOLEAN

PortInit ==
    /\ HarnessOff
    /\ runPc = [r \in Runs |-> "checkPort"]
    /\ svc = [r \in Runs |-> "none"]
    /\ NoCall

\* checkPort, the try block up to s.bind(("0.0.0.0", port)); the except
\* clause prints and calls exit(77).
checkPortBind(r) ==
    /\ runPc[r] = "checkPort"
    /\ \E bound \in BindOutcomes(r) :
         runPc' = [runPc EXCEPT ![r] = IF bound THEN "close" ELSE "exit77"]
    /\ UNCHANGED <<svc, call, ret, harnessVars>>

\* checkPort, s.close(): the port is released and checkPort returns.
checkPortClose(r) ==
    /\ runPc[r] = "close"
    /\ runPc' = [runPc EXCEPT ![r] = "spawn"]
    /\ UNCHANGED <<svc, call, ret, harnessVars>>

\* startSandbox, Popen(...) right after checkPort returned.
Popen(r) ==
    /\ runPc[r] = "spawn"
    /\ runPc' = [runPc EXCEPT ![r] = "started"]
    /\ svc' = [svc EXCEPT ![r] = "starting"]
    /\ UNCHANGED <<call, ret, harnessVars>>

\* The launched service binds the port and listens, or fails to.
ServiceBinds(r) ==
    /\ svc[r] = "starting"
    /\ \E bound \in BindOutcomes(r) :
         svc' = [svc EXCEPT ![r] = IF bound THEN "listening" ELSE "failed"]
    /\ UNCHANGED <<runPc, call, ret, harnessVars>>

PortNext ==
    \E r \in Runs : checkPortBind(r) \/ checkPortClose(r) \/ Popen(r) \/ ServiceBinds(r)

PortSpec == PortInit /\ [][PortNext]_vars

\* ----------------------------------------------------------- JsonContract
\* Field names of the documents and contracts.
Names == {"a", "b"}

\* A JSON value as the validator sees it.  t is its Python type after
\* json(): "obj" (dict), "str", "list", "num", "null" (None), and "absent" for
\* what dict.get returns when the key is missing (None as well).  has is what
\* `name in value` is true for: the keys of a dict, the names that occur as
\* substrings of a str, the names that are elements of a list.
Node(type, held) == [t |-> type, has |-> held]
Absent == Node("absent", {})
Leaves ==
    {Node("null", {}), Node("num", {}), Node("str", {}), Node("str", {"b"}),
     Node("list", {"b"})}
Objects == {Node("obj", h) : h \in SUBSET Names}

\* The documents: a dict whose values are leaves or dicts.
Docs ==
    {[t |-> "obj", has |-> {n \in Names : k[n] # Absent}, kids |-> k] :
        k \in [Names -> {Absent} \cup Leaves \cup Objects]}

\* CheckJsonField(name, nested=None, optional=False).  nested is a
\* CheckJsonTop when hasNested, which is true in Python whatever it holds.
CheckJsonField(name, hasNested, nested, optional) ==
    [name |-> name, hasNested |-> hasNested, nested |-> nested, optional |-> optional]

\* The contracts: CheckJsonTop(*rules); a rule may hold a nested contract of
\* at most one rule.
LeafRules == {CheckJsonField(n, FALSE, <<>>, o) : n \in Names, o \in BOOLEAN}
NestedContracts == {<<>>} \cup {<<q>> : q \in LeafRules}
Rules ==
    LeafRules \cup
    {CheckJsonField(n, TRUE, c, o) : n \in Names, c \in NestedContracts, o \in BOOLEAN}
Contracts == UNION {[1..len -> Rules] : len \in 0..MaxRules}

\* How a call of check ends: it returns ("ok"), calls sys.exit(1) after
\* printing the field name ("exit"), or raises ("TypeError", "AttributeError").
\* absentNested records that a nested contract was run on a missing field;
\* value is what the call returns, None unless a return statement gives more.
None == [t |-> "None", has |-> {}]
Outcome(kind, name) ==
    [kind |-> kind, name |-> name, absentNested |-> FALSE, value |-> None]

RECURSIVE CheckJsonTop_check(_, _)
\* CheckJsonField.check(self, json)
CheckJsonField_check(self, json) ==
    IF json.t \notin {"obj", "str", "list"}
      THEN Outcome("TypeError", "")             \* self.name not in json
    ELSE IF self.name \notin json.has /\ ~self.optional
      THEN Outcome("exit", self.name)           \* print; sys.exit(1)
    ELSE IF ~self.hasNested
      THEN Outcome("ok", "")
    ELSE IF json.t # "obj"
      THEN Outcome("AttributeError", "")        \* json.get
    ELSE [CheckJsonTop_check(self.nested, json.kids[self.name])
            EXCEPT !.absentNested = @ \/ self.name \notin json.has,
                   !.value = None]

\* CheckJsonTop.check(self, json): the rules in order, up to the first one
\* that does not return; then return json.
CheckJsonTop_check(checks, json) ==
    IF checks = <<>> THEN [Outcome("ok", "") EXCEPT !.value = json]
    ELSE LET first == CheckJsonField_check(Head(checks), json)
         IN  IF first.kind # "ok" THEN first
             ELSE [CheckJsonTop_check(Tail(checks), json)
                     EXCEPT !.absentNested = @ \/ first.absentNested]

Pending == [kind |-> "pending"]

CheckInit ==
    /\ HarnessOff
    /\ NoRace
    /\ call \in [fn : {"check"}, contract : Contracts, doc : Docs]
    /\ ret = Pending

\* Faulty variant of a check function: c.check(json) without the return.
jsonCheck_NoReturn(c, json) == [CheckJsonTop_check(c, json) EXCEPT !.value = None]

\* A check function of json_checks.py: c = T(...); return c.check(json).
jsonCheck(c, json) == CheckJsonTop_check(c, json)

\* The exception that leaves the call: sys.exit(1) raises SystemExit.
Raised(outcome) ==
    CASE outcome.kind = "ok" -> ""
      [] outcome.kind = "exit" -> "SystemExit"
      [] OTHER -> outcome.kind

\* The exit status of the script whose module-level statement made the call
\* (test-ebics-backup.py): the argument of sys.exit, the interpreter's status
\* for an exception nobody caught, or -1 while the script goes on.
ScriptStatus(outcome) ==
    CASE outcome.kind = "ok" -> -1
      [] outcome.kind = "exit" -> 1
      [] OTHER -> 1

\* `except Exception:` of setup_function catches the classes derived from
\* Exception; SystemExit derives from BaseException only.
ExceptException(class) == class \in {"TypeError", "AttributeError", "AssertionError"}

\* The n-th call as the calling script sees it.
Called(outcome, n) ==
    [kind |-> outcome.kind, name |-> outcome.name,
     absentNested |-> outcome.absentNested, value |-> outcome.value,
     raised |-> Raised(outcome), status |-> ScriptStatus(outcome), times |-> n]

\* json=checkNewUserRequest(dict(...)) at module level of a script: the
\* first call of a contract on a document.
Check ==
    /\ call.fn = "check" /\ ret.kind = "pending"
    /\ ret' = Called(jsonCheck(call.contract, call.doc), 1)
    /\ UNCHANGED <<call, runPc, svc, harnessVars>>

\* The script goes on after a check that returned, and the same contract
\* checks the same document again.
Recheck ==
    /\ call.fn = "check" /\ ret.kind = "ok"
    /\ ret.times < MaxChecks
    /\ ret' = Called(jsonCheck(call.contract, call.doc), ret.times + 1)
    /\ UNCHANGED <<call, runPc, svc, harnessVars>>

CheckNext == Check \/ Recheck

CheckSpec == CheckInit /\ [][CheckNext]_vars

\* The field names a value holds: the keys of an object, none otherwise.
NamesAt(json) == IF json.t = "obj" THEN json.has ELSE {}
\* Two documents with the same field names at every level.
SameNames(d, e) ==
    /\ d.has = e.has
    /\ \A n \in Names : NamesAt(d.kids[n]) = NamesAt(e.kids[n])

TwinInit ==
    /\ HarnessOff
    /\ NoRace
    /\ call \in {c \in [fn : {"check twice"}, contract : Contracts, doc : Docs, other : Docs] :
                    SameNames(c.doc, c.other) /\ c.doc # c.other}
    /\ ret = Pending

\* One contract checks two documents that differ in values only.
CheckTwins ==
    /\ call.fn = "check twice" /\ ret.kind = "pending"
    /\ ret' = [kind |-> "done",
               first |-> CheckJsonTop_check(call.contract, call.doc),
               second |-> CheckJsonTop_check(call.contract, call.other)]
    /\ UNCHANGED <<call, runPc, svc, harnessVars>>

TwinSpec == TwinInit /\ [][CheckTwins]_vars

\* --------------------------------------------------------- assertResponse
\* Status codes the services answer with, and their reason phrases.
Statuses == {200, 400, 406}
Reason(status) ==
    CASE status = 200 -> "OK"
      [] status = 400 -> "Bad Request"
      [] status = 406 -> "Not Acceptable"

\* r.request.body as the requests library prepares it: None when the call
\* passes no body (get), bytes for json=..., the str itself for data="...".
Bodies ==
    {[type |-> "None", text |-> ""]} \cup
    [type : {"bytes", "str"}, text : {"", "malformed"}]
Requests ==
    [method : {"GET"}, url : {"/users", "/bank-connections"},
     body : {[type |-> "None", text |-> ""]}] \cup
    [method : {"POST"}, url : {"/users", "/bank-connections"}, body : Bodies]
Responses ==
    {[status_code |-> s, reason |-> Reason(s), text |-> x, request |-> q] :
        s \in Statuses, x \in {"", "error"}, q \in Requests}

\* The second argument of a call: left out, or a list of codes.
AcceptedArgs ==
    {[given |-> FALSE, codes |-> {}]} \cup
    [given : {TRUE}, codes : (SUBSET Statuses) \ {{}}]

\* def assertResponse(r, acceptedResponses=[200])
DefaultAccepted == {200}

\* Faulty variant: the argument is ignored.
Accepted_DefaultOnly(arg) == DefaultAccepted

\* The codes a call accepts.
Accepted(arg) == IF arg.given THEN arg.codes ELSE DefaultAccepted

\* http_trace(r): the request line, the body when `if r.request.body:` is
\* true, decoded, and the response; body.decode exists on bytes only.
http_trace(r) ==
    LET body == r.request.body
        line == <<r.request.method, r.request.url>>
    IN  IF body.type # "None" /\ body.text # "" /\ body.type # "bytes"
          THEN [raised |-> "AttributeError"]
          ELSE [raised |-> "",
                request |-> IF body.type # "None" /\ body.text # ""
                              THEN Append(line, body.text) ELSE line,
                response |-> <<r.status_code, r.reason, r.text>>]

\* assert r.status_code in acceptedResponses, http_trace(r); return r.  The
\* message is computed when the assertion fails, and only then.
assertResponse(r, arg) ==
    IF r.status_code \in Accepted(arg)
      THEN [kind |-> "return", value |-> r]
    ELSE IF http_trace(r).raised # ""
      THEN [kind |-> http_trace(r).raised]
    ELSE [kind |-> "AssertionError", message |-> http_trace(r)]

ResponseInit ==
    /\ HarnessOff
    /\ NoRace
    /\ call \in [fn : {"assertResponse"}, r : Responses, accepted : AcceptedArgs]
    /\ ret = Pending

\* assertResponse(post(...), [...]) as the tests call it.
AssertResponse ==
    /\ call.fn = "assertResponse" /\ ret.kind = "pending"
    /\ ret' = assertResponse(call.r, call.accepted)
    /\ UNCHANGED <<call, runPc, svc, harnessVars>>

ResponseSpec == ResponseInit /\ [][AssertResponse]_vars

\* -------------------------------------------------- EquivalenceComparator
\* A JSON value as json() yields it.  t is "scalar", "array" or "object"; s is
\* the scalar (a token that stands for its type and value); items holds the
\* elements of an array, or the members of an object in key order, each
\* carrying its key in k.
Json(key, type, scalar, items) == [k |-> key, t |-> type, s |-> scalar, items |-> items]
Keyed(key, v) == [v EXCEPT !.k = key]
Scalars == {Json("", "scalar", x, <<>>) : x \in {"a", "b"}}
Arrays == {Json("", "array", "", q) : q \in UNION {[1..n -> Scalars] : n \in 0..MaxItems}}
Fields == {"f", "g"}
ObjectsOf(key) == {<<>>} \cup {<<Keyed(key, v)>> : v \in Scalars \cup Arrays}
JsonObjects == {Json("", "object", "", m \o n) : m \in ObjectsOf("f"), n \in ObjectsOf("g")}
JsonDocs == Scalars \cup Arrays \cup JsonObjects

Keys(obj) == {obj.items[x].k : x \in 1..Len(obj.items)}
Member(obj, key) == obj.items[CHOOSE x \in 1..Len(obj.items) : obj.items[x].k = key]

\* DeepDiff(t1, t2, ignore_order=..., report_repetition=...) of the deepdiff
\* library, as the set of keys of the report it returns.  With ignore_order
\* the elements of two lists are matched whatever their position; the number
\* of times an element occurs counts only with report_repetition.
RECURSIVE DeepDiff(_, _, _, _)
DeepDiff(t1, t2, ignore_order, report_repetition) ==
    LET same(x, y) == DeepDiff(x, y, ignore_order, report_repetition) = {}
        count(x, q) == Cardinality({y \in 1..Len(q) : same(x, q[y])})
        a == t1.items
        b == t2.items
    IN  IF t1.t # t2.t THEN {"type_changes"}
        ELSE IF t1.t = "scalar"
          THEN IF t1.s = t2.s THEN {} ELSE {"values_changed"}
        ELSE IF t1.t = "object"
          THEN (IF Keys(t1) \ Keys(t2) # {} THEN {"dictionary_item_removed"} ELSE {})
               \cup (IF Keys(t2) \ Keys(t1) # {} THEN {"dictionary_item_added"} ELSE {})
               \cup UNION {DeepDiff(Member(t1, key), Member(t2, key),
                                    ignore_order, report_repetition) :
                               key \in Keys(t1) \cap Keys(t2)}
        ELSE IF ignore_order
          THEN (IF \E x \in 1..Len(a) : count(a[x], b) = 0
                  THEN {"iterable_item_removed"} ELSE {})
               \cup (IF \E y \in 1..Len(b) : count(b[y], a) = 0
                       THEN {"iterable_item_added"} ELSE {})
               \cup (IF report_repetition /\
                        \E x \in 1..Len(a) : /\ count(a[x], b) > 0
                                              /\ count(a[x], b) # count(a[x], a)
                       THEN {"repetition_change"} ELSE {})
        ELSE (IF Len(a) > Len(b) THEN {"iterable_item_removed"} ELSE {})
             \cup (IF Len(b) > Len(a) THEN {"iterable_item_added"} ELSE {})
             \cup UNION {DeepDiff(a[x], b[x], ignore_order, report_repetition) :
                             x \in 1..(IF Len(a) < Len(b) THEN Len(a) ELSE Len(b))}

\* Faulty variant: report_repetition is left at its default, False.
assertJsonEqual_NoRepetition(json1, json2) ==
    IF DeepDiff(json1, json2, TRUE, FALSE) = {}
      THEN [kind |-> "return"] ELSE [kind |-> "AssertionError"]

\* assertJsonEqual(json1, json2), and assert_json_equal of parsing-tests:
\* diff = DeepDiff(json1, json2, ignore_order=True, report_repetition=True);
\* assert len(diff.keys()) == 0.
assertJsonEqual(json1, json2) ==
    IF DeepDiff(json1, json2, TRUE, TRUE) = {}
      THEN [kind |-> "return"] ELSE [kind |-> "AssertionError"]

EqualInit ==
    /\ HarnessOff
    /\ NoRace
    /\ call \in [fn : {"assertJsonEqual"}, json1 : JsonDocs, json2 : JsonDocs]
    /\ ret = Pending

AssertJsonEqual ==
    /\ call.fn = "assertJsonEqual" /\ ret.kind = "pending"
    /\ ret' = assertJsonEqual(call.json1, call.json2)
    /\ UNCHANGED <<call, runPc, svc, harnessVars>>

EqualSpec == EqualInit /\ [][AssertJsonEqual]_vars

\* test_ingestion_camt53 and test_ingestion_camt53_non_singleton:
\* assert not dd(resp.json(), json.loads(expected_txs), ignore_order=True),
\* dd being DeepDiff; an empty report is false.
ingestionCheck(response, expected) ==
    IF DeepDiff(response, expected, TRUE, FALSE) = {}
      THEN [kind |-> "return"] ELSE [kind |-> "AssertionError"]

IngestionInit ==
    /\ HarnessOff
    /\ NoRace
    /\ call \in [fn : {"ingestion"}, json1 : JsonDocs, json2 : JsonDocs]
    /\ ret = Pending

\* The last statement of an ingestion test: json1 is the response of the
\* transactions endpoint, json2 the fixture.
IngestionAssert ==
    /\ call.fn = "ingestion" /\ ret.kind = "pending"
    /\ ret' = ingestionCheck(call.json1, call.json2)
    /\ UNCHANGED <<call, runPc, svc, harnessVars>>

IngestionSpec == IngestionInit /\ [][IngestionAssert]_vars

\* ------------------------------------------------------------ properties
\* Positions of the interpreter's exit, of a readiness loop, and of a scenario.
ExitPcs == {"atexit", "kill_wait", "ended"}
LoopPcs == {"probe", "get", "sleep", "timeout"}
ScenarioPcs == {"setup", "setup_except", "setup_assert", "body", "teardown",
                "td_sandbox", "td_nexus"}
\* The runner is done with the current scenario.
ScenarioOver == scen >= 1 /\ pc \in ExitPcs \cup {"run_next"}

\* C1: once the harness process has ended, every service process that was
\* spawned has been terminated exactly once: it was sent no more than one stop
\* signal (none when it had exited by itself) and was waited for once.
C1_TerminatedExactlyOnce ==
    pc = "ended" =>
        \A s \in Svc : proc[s] # "none" => signals[s] <= 1 /\ waits[s] = 1

\* C2: when the runner is done with a scenario that entered setup,
\* teardown_function has been called for it once and has issued its resets in
\* order, dropSandboxTables then dropNexusTables (the second one unless the
\* first raised), whether the scenario passed, its body failed or its setup
\* failed.
C2_TeardownAfterEveryScenario ==
    ScenarioOver =>
        /\ tdCalls = 1
        /\ \/ drops = <<"sandbox", "nexus">>
           \/ drops = <<"sandbox">> /\ resetFailed

\* C2 witness: a scenario whose setup failed at a nexus step is over, and its
\* teardown ran both resets.
C2_Witness ==
    /\ pc = "run_next" /\ setupFailed /\ step = 5
    /\ tdCalls = 1 /\ drops = <<"sandbox", "nexus">>

\* C3: whenever the setup of a scenario begins, both stores are at the empty
\* baseline.
C3_SetupStartsClean ==
    (pc = "setup" /\ issued = <<>>) => \A s \in Svc : store[s] = "clean"

\* C4: once a setup step has failed, no later setup step is issued, the body
\* of that scenario is never executed, and the scenario ends reported as not
\* passed (an error).
C4_SetupFailureAborts ==
    setupFailed =>
        /\ ~bodyRan
        /\ Len(issued) = step + 1
        /\ pc \notin {"setup", "body", "teardown"}
        /\ ScenarioOver => result = "error"

\* C4 witness: the superuser command (fourth step) failed, the scenario is
\* over and reported as an error, with four steps issued and no body run.
C4_Witness ==
    /\ pc = "run_next" /\ setupFailed /\ step = 3
    /\ issued = <<"host", "subscriber", "bank-account", "superuser">>
    /\ result = "error" /\ ~bodyRan

\* A failure of one of the classes of the taxonomy occurred in this run:
\* EnvironmentUnavailable (busy port, readiness timeout), UnexpectedStatus or
\* EquivalenceMismatch (a failed scenario), StateResetFailure.
FailureOccurred ==
    \/ \E s \in Svc : bindFailed[s] \/ timedOut[s]
    \/ sessionFailed
    \/ resetFailed

\* C5: when the harness has ended after a failure, no launched service is
\* still running and no store is dirty.
C5_TeardownAfterFailure ==
    (pc = "ended" /\ FailureOccurred) =>
        /\ \A s \in Svc : proc[s] # "running"
        /\ \A s \in Svc : store[s] = "clean"

\* C6: once a state-reset step has failed, no scenario is set up or executed.
C6_ResetFailureAbortsRun == resetFailed => pc \notin ScenarioPcs

\* C7: a readiness loop that has started eventually finishes: the function
\* returns or the harness exits.
C7_ReadinessFinishes ==
    \A s \in Svc : (pc \in LoopPcs /\ starting = s) ~> (pc \notin LoopPcs)

\* C8: after a readiness timeout, of the sandbox or of nexus, the harness ends
\* with exit code 77 and no scenario runs.
C8_TimeoutExits77 ==
    \A s \in Svc : timedOut[s] =>
        /\ exitCode \in {-1, ExitSkip}
        /\ scen = 0

\* C9: a service whose port could not be bound by checkPort is never spawned
\* and the harness exits with code 77; a spawned service had its port checked,
\* successfully, before.
C9_BusyPortNeverSpawns ==
    \A s \in Svc :
        /\ bindFailed[s] => proc[s] = "none" /\ pc \in ExitPcs /\ exitCode = ExitSkip
        /\ proc[s] # "none" => portChecked[s] /\ ~bindFailed[s]

\* C9 witness: the sandbox runs, the port of nexus is busy at its check, and
\* the harness has ended with 77 without spawning nexus.
C9_Witness ==
    /\ pc = "ended" /\ exitCode = ExitSkip
    /\ bindFailed["nexus"] /\ proc["nexus"] = "none"
    /\ proc["sandbox"] # "none"

\* C10: once the harness process has ended, no service it launched is still
\* running, and every service that was sent a stop signal was waited for.
C10_NoServiceOutlivesHarness ==
    pc = "ended" =>
        \A s \in Svc :
            /\ proc[s] # "running"
            /\ terminateCalls[s] > 0 => waits[s] >= 1 /\ returncode[s]

\* C10 witness: nexus timed out, was sent the stop signal by startNexus, and
\* the harness ended after waiting for it.
C10_Witness ==
    /\ pc = "ended" /\ timedOut["nexus"]
    /\ signals["nexus"] >= 1 /\ waits["nexus"] = 1 /\ proc["nexus"] = "exited"

\* C11: the services are started one after the other: the port of nexus is
\* checked, and nexus is spawned, only when a readiness probe of the sandbox
\* has been answered; nexus is never started while the sandbox is still being
\* started or after the sandbox timed out.
C11_SequentialStart ==
    /\ (portChecked["nexus"] \/ proc["nexus"] # "none") =>
           /\ ready["sandbox"] /\ ~timedOut["sandbox"]
           /\ proc["sandbox"] # "none"
    /\ starting = "sandbox" => ~portChecked["nexus"] /\ proc["nexus"] = "none"

\* C11 witness: nexus was spawned after the sandbox answered a probe.
C11_Witness ==
    /\ proc["nexus"] = "running" /\ portChecked["nexus"]
    /\ ready["sandbox"] /\ starting = "nexus" /\ pc = "probe"

\* C13: the setup steps are issued in their declared order (host, subscriber,
\* bank-account, superuser, user, bank-connection, connect, fetch-accounts,
\* import-account); a step is issued only when the assertion of every step
\* before it has passed, and none is issued after a step failed.
C13_StepsInOrder ==
    /\ Len(issued) <= Len(SetupSteps)
    /\ \A k \in 1..Len(issued) : issued[k] = SetupSteps[k].name
    /\ Len(issued) = step + (IF setupFailed THEN 1 ELSE 0)
    /\ setupFailed => pc # "setup"

\* C13 witness: all nine steps were issued and passed, and the body is next.
C13_Witness ==
    /\ pc = "body" /\ step = Len(SetupSteps) /\ ~setupFailed
    /\ Len(issued) = Len(SetupSteps) /\ issued[Len(SetupSteps)] = "import-account"

\* C12: of the harness processes that use one port at the same time, at most
\* one passes checkPort and launches a service on that port.
C12_PortCheckExclusive == Cardinality({r \in Runs : svc[r] # "none"}) <= 1

\* A field is present in a document when the document is an object that has
\* the key; a value that is no object has no fields.
Present(json, name) == json.t = "obj" /\ name \in json.has
Checked == call.fn = "check" /\ ret.kind # "pending"

\* A document satisfies a contract: every non-optional rule's field is
\* present, and the value of every present field with a nested contract
\* satisfies that contract.
RECURSIVE Satisfies(_, _)
Satisfies(checks, json) ==
    \A k \in 1..Len(checks) :
        /\ ~checks[k].optional => Present(json, checks[k].name)
        /\ (checks[k].hasNested /\ Present(json, checks[k].name)) =>
               Satisfies(checks[k].nested, json.kids[checks[k].name])

\* The first required field, in declaration order and depth first, that a
\* document lacks ("" when it lacks none).
RECURSIVE FirstMissing(_, _)
FirstMissing(checks, json) ==
    IF checks = <<>> THEN ""
    ELSE LET rule == Head(checks)
             here == IF ~Present(json, rule.name)
                       THEN (IF rule.optional THEN "" ELSE rule.name)
                       ELSE IF rule.hasNested
                              THEN FirstMissing(rule.nested, json.kids[rule.name])
                              ELSE ""
         IN  IF here # "" THEN here ELSE FirstMissing(Tail(checks), json)

\* C14: check(C, D) succeeds if and only if D satisfies C.
C14_CheckIffSatisfies ==
    Checked => (ret.kind = "ok" <=> Satisfies(call.contract, call.doc))

\* C15: when D lacks a required field, check(C, D) fails naming the first
\* such field in declaration order, whatever else D holds.
C15_FirstMissingNamed ==
    (Checked /\ FirstMissing(call.contract, call.doc) # "") =>
        /\ ret.kind = "exit"
        /\ ret.name = FirstMissing(call.contract, call.doc)

\* C16: a nested contract is run only on a field that is present: for an
\* absent optional field it is not run, and the next rule follows.
C16_AbsentOptionalSkipped == Checked => ~ret.absentNested

\* C17: the outcome of check depends on the field names of the document
\* only: two documents with the same field names at every level, whatever
\* their values, get the same outcome from the same contract.
C17_OutcomeIgnoresValues ==
    (call.fn = "check twice" /\ ret.kind = "done") =>
        /\ ret.first.kind = ret.second.kind
        /\ ret.first.name = ret.second.name

Asserted == call.fn = "assertResponse" /\ ret.kind # "pending"
\* The set of codes the caller passed, {200} when it passed none.
AcceptedSet == IF call.accepted.given THEN call.accepted.codes ELSE {200}

\* C18: assertResponse(r, accepted) returns the response it was given if and
\* only if the status code of r is in the accepted set ({200} when none is
\* passed); for any other status it fails and returns nothing.
C18_PassThroughIffAccepted ==
    Asserted =>
        /\ ret.kind = "return" <=> call.r.status_code \in AcceptedSet
        /\ ret.kind = "return" => ret.value = call.r
        /\ ret.kind # "return" => ret.kind \in {"AssertionError", "AttributeError"}

\* C18 witness: a call that accepts 406 only got a 406 and returned it.
C18_Witness ==
    /\ Asserted /\ call.accepted.given /\ call.accepted.codes = {406}
    /\ call.r.status_code = 406 /\ ret.kind = "return" /\ ret.value = call.r

\* C19: every failure of assertResponse is an assertion failure whose message
\* holds the request method and URL, the request body when there is one, the
\* status code, the reason phrase and the response text, whether the request
\* had no body, a body of bytes or a body of text.
C19_FailureCarriesTrace ==
    (Asserted /\ ret.kind # "return") =>
        /\ ret.kind = "AssertionError"
        /\ ret.message.request =
              <<call.r.request.method, call.r.request.url>> \o
              (IF call.r.request.body.text # ""
                 THEN <<call.r.request.body.text>> ELSE <<>>)
        /\ ret.message.response =
              <<call.r.status_code, call.r.reason, call.r.text>>

Compared == call.fn = "assertJsonEqual" /\ ret.kind # "pending"
\* q is p in another order.
IsPermutation(p, q) ==
    /\ Len(p) = Len(q)
    /\ \E f \in [1..Len(p) -> 1..Len(p)] :
         /\ \A x, y \in 1..Len(p) : f[x] = f[y] => x = y
         /\ \A x \in 1..Len(p) : q[f[x]] = p[x]
\* p and q hold the same elements.
SameElements(p, q) ==
    {p[x] : x \in 1..Len(p)} = {q[x] : x \in 1..Len(q)}

\* C20: the equivalence check accepts a document compared with itself and
\* two arrays that are permutations of each other; it rejects two arrays that
\* hold the same elements a different number of times, two different
\* scalars, and two objects that differ in the scalar value of a field.
C20_EquivalenceRelation ==
    Compared =>
        LET x == call.json1
            y == call.json2
            accepted == ret.kind = "return"
        IN  /\ x = y => accepted
            /\ (x.t = "array" /\ y.t = "array" /\ IsPermutation(x.items, y.items))
                  => accepted
            /\ (x.t = "array" /\ y.t = "array" /\ SameElements(x.items, y.items)
                  /\ ~IsPermutation(x.items, y.items)) => ~accepted
            /\ (x.t = "scalar" /\ y.t = "scalar" /\ x.s # y.s) => ~accepted
            /\ (x.t = "object" /\ y.t = "object" /\
                 \E m \in 1..Len(x.items), n \in 1..Len(y.items) :
                     /\ x.items[m].k = y.items[n].k
                     /\ x.items[m].t = "scalar" /\ y.items[n].t = "scalar"
                     /\ x.items[m].s # y.items[n].s) => ~accepted

\* C20 witness: [a, a] was compared with [a] and rejected.
C20_Witness ==
    /\ Compared /\ ret.kind = "AssertionError"
    /\ call.json1.t = "array" /\ call.json2.t = "array"
    /\ Len(call.json1.items) = 2 /\ Len(call.json2.items) = 1
    /\ call.json1.items[1] = call.json2.items[1]
    /\ call.json1.items[2] = call.json2.items[1]

\* C21: the ingestion tests compare the returned list with the fixture as a
\* multiset: the check passes when the response is the fixture in another
\* order, and fails when the response holds the elements of the fixture a
\* different number of times.
C21_IngestionMultiset ==
    (call.fn = "ingestion" /\ ret.kind # "pending"
       /\ call.json1.t = "array" /\ call.json2.t = "array") =>
        /\ IsPermutation(call.json1.items, call.json2.items) => ret.kind = "return"
        /\ (SameElements(call.json1.items, call.json2.items)
              /\ ~IsPermutation(call.json1.items, call.json2.items))
             => ret.kind = "AssertionError"

\* The kill hook of a service is in the atexit registry.
Registered(s) == \E k \in 1..Len(hooks) : hooks[k] = s

\* C22: the kill hook of a service is registered right after its spawn: a
\* spawned service whose hook is not registered yet is found only at the
\* statement between Popen and atexit.register, before any probe or sleep of
\* its loop and with the harness not exiting.
C22_HookRegisteredAtLaunch ==
    \A s \in Svc :
        (proc[s] # "none" /\ ~Registered(s)) =>
            /\ pc = "register" /\ starting = s
            /\ exitCode = -1
            /\ probes = 0 /\ sleeps = 0

\* C22 witness: nexus timed out during readiness polling and the exit finds
\* both hooks registered.
C22_Witness ==
    /\ pc = "atexit" /\ exitCode = ExitSkip /\ timedOut["nexus"]
    /\ pending = <<"nexus", "sandbox">>

\* C23: a readiness loop issues at most MaxAttempts probes (10 for the
\* sandbox, 80 for nexus) and stops at the first one that is answered; every
\* failed probe but the MaxAttempts-th is followed by one sleep of the fixed
\* interval (2 s, 1 s), so there are at most MaxAttempts - 1 sleeps; the
\* timeout branch is entered exactly when the MaxAttempts-th probe failed.
C23_ProbeAndSleepBudget ==
    pc \in LoopPcs \cup {"ready"} =>
        /\ probes <= MaxAttempts(starting)
        /\ sleeps <= MaxAttempts(starting) - 1
        /\ slept = sleeps * Interval(starting)
        /\ probes = sleeps + (IF pc = "probe" THEN 0 ELSE 1)
        /\ pc = "ready" => ~timedOut[starting]
        /\ pc = "sleep" => probes < MaxAttempts(starting) /\ ~timedOut[starting]
        /\ pc = "timeout" <=> timedOut[starting]
        /\ timedOut[starting] => probes = MaxAttempts(starting)

\* C23 witness: the eightieth probe of nexus failed after 79 sleeps of one
\* second, and the timeout branch was entered.
C23_Witness ==
    /\ pc = "timeout" /\ starting = "nexus" /\ timedOut["nexus"]
    /\ probes = NexusMaxAttempts /\ sleeps = NexusMaxAttempts - 1
    /\ slept = (NexusMaxAttempts - 1) * NexusInterval

\* C24: the kill hooks run in reverse order of launch: the hooks still to
\* run are always the tail of the registry read backwards; when both
\* services were launched, the sandbox is signalled only after nexus has been
\* signalled and waited for, and while the hook of nexus waits for its
\* child, the hook of the sandbox has not begun.
C24_HooksInReverseOrder ==
    /\ pc \in ExitPcs =>
          \E k \in 1..(Len(hooks) + 1) : pending = SubSeq(Reverse(hooks), k, Len(hooks))
    /\ (terminateCalls["sandbox"] > 0 /\ Registered("nexus")) => waits["nexus"] = 1
    /\ (pc = "kill_wait" /\ Head(pending) = "nexus") =>
          terminateCalls["sandbox"] = 0 /\ waits["sandbox"] = 0

\* C24 witness: nexus was signalled and waited for, and the sandbox has just
\* been signalled and is not yet waited for.
C24_Witness ==
    /\ pc = "kill_wait" /\ Head(pending) = "sandbox" /\ hooks = <<"sandbox", "nexus">>
    /\ signals["nexus"] = 1 /\ waits["nexus"] = 1
    /\ signals["sandbox"] = 1 /\ waits["sandbox"] = 0

\* C25: a readiness loop ends with the service ready only on an answer of
\* the child the harness launched, which is then still running: whenever a
\* pending probe is answered and the loop breaks, the listener on the port is
\* that child.
C25_ReadyOnlyByOwnChild ==
    [][(pc = "get" /\ pc' = "ready") =>
          (portOwner[starting] = "child" /\ proc[starting] = "running")]_vars

\* C26: a document that violates the contract ends the script through
\* sys.exit(1): the process exits with status 1, never 77, and the exception
\* is not one that `except Exception` of setup_function catches; a document
\* that satisfies the contract ends nothing and the caller goes on.
C26_ViolationExitsOne ==
    Checked =>
        /\ ~Satisfies(call.contract, call.doc) =>
              /\ ret.raised = "SystemExit"
              /\ ret.status = 1
              /\ ~ExceptException(ret.raised)
        /\ Satisfies(call.contract, call.doc) =>
              ret.kind = "ok" /\ ret.status = -1

\* C27: a check that succeeds returns the document it was given, and a
\* further check of the same document by the same contract succeeds again
\* and returns it again.
C27_CheckReturnsDocument ==
    Checked =>
        /\ ret.kind = "ok" => ret.value = call.doc
        /\ ret.times > 1 => ret.kind = "ok" /\ ret.value = call.doc

\* C27 witness: a contract with a nested contract checked the same document
\* a second time and returned it.
C27_Witness ==
    /\ Checked /\ ret.kind = "ok" /\ ret.times = MaxChecks
    /\ ret.value = call.doc
    /\ \E k \in 1..Len(call.contract) : call.contract[k].hasNested
    /\ call.doc.has = Names

====
